---- MODULE Spec2Model ----
(***************************************************************************)
(* Saliency-based colour palette extraction: app/core/palette_extraction.py *)
(* (extract_palette), app/core/distance_metrics.py, app/core/utils.py and   *)
(* app/core/saliency.py.                                                    *)
(*                                                                          *)
(* Number representation.  All quantities are held as exact integers:       *)
(*   - a saliency value s in [0,1] is the integer k with s = k / SalScale,  *)
(*     SalScale a power of two, so that s is a binary floating-point value; *)
(*   - an input pixel is the 8-bit Lab triple <<l8, a8, b8>> that           *)
(*     cv2.cvtColor(image, COLOR_RGB2LAB) yields for it (cv2 is a library,  *)
(*     its colour transform is not part of the repository);                 *)
(*   - a CIELab sample is [L, a, b] with a, b the signed integers and L the *)
(*     float32 value the code stores, held as [m, s] for m * 2^-s;          *)
(*   - delta_L is the float32 difference of two such values; the square,    *)
(*     the two sums and the root of line 26 are each rounded to float_bits  *)
(*     significant bits: 53 where NumPy promotes float32 * 0.5 to float64   *)
(*     (NumPy 1.x), 24 where it keeps float32 (NumPy 2); the repository     *)
(*     pins neither;                                                        *)
(*   - a weighted distance w * d is held times SalScale * 2^55, an integer  *)
(*     written as three limbs <<T, M, L>> for T * 2^44 + M * 2^22 + L,      *)
(*     every limb carrying the sign; the product with a saliency weight of  *)
(*     the grid is exact in either precision;                               *)
(*   - a percentile is held times 200; an odd value 200*v - 1 stands for    *)
(*     a float64 just below the sample value v and above every smaller one. *)
(***************************************************************************)
EXTENDS Integers, Sequences, FiniteSets, TLC

VARIABLES
    image,          \* input image: cv2 8-bit Lab triple of each pixel, row-major
    img_shape,      \* <<h, w>> of the image
    saliency_map,   \* saliency field, row-major
    sal_shape,      \* <<h, w>> of the saliency field
    float_bits,     \* precision of the scalar arithmetic of the installed NumPy
    pc,             \* position in extract_palette / the caller
    path,           \* which sampler branch produced the candidates
    indices,        \* flat image position of every candidate (mask / indices)
    pixels,         \* candidate Lab samples          (pixels, line 31 / 39)
    saliency_flat,  \* candidate saliency weights     (saliency_flat, line 32 / 40)
    selected,       \* list of (p, w) tuples          (selected, line 54)
    selected_indices, \* candidate index of every selected entry
    candidates,     \* remaining pool colours         (candidates, line 60 / 84)
    saliency_cand,  \* remaining pool weights         (saliency_cand, line 61 / 85)
    cand_idx,       \* candidate index of every pool entry (co-indexed with candidates)
    rnd,            \* loop variable of `for _ in range(2, 5)`
    palette,        \* the returned list of {"RGB", "Weight"}
    normalized,     \* the palette with display weights (presentation layer)
    rgb,            \* the RGB image handed to compute_combined_saliency
    s1,             \* graph_based_saliency(image)      (saliency.py line 51)
    s2,             \* frequency_tuned_saliency(image)  (saliency.py line 52)
    combined,       \* the field returned by compute_combined_saliency
    args,           \* arguments of a direct call of weighted_lab_distance
    result          \* what that call returned

inputVars  == <<image, img_shape, saliency_map, sal_shape, float_bits>>
sampleVars == <<path, indices, pixels, saliency_flat>>
selectVars == <<selected, selected_indices, candidates, saliency_cand, cand_idx, rnd>>
callVars   == <<normalized>>
salVars    == <<rgb, s1, s2, combined>>
distVars   == <<args, result>>

vars == <<inputVars, pc, sampleVars, selectVars, palette, callVars, salVars, distVars>>

-----------------------------------------------------------------------------
(* Bounds of the model *)

\* saliency grid: values k / 2^SalBits, k in 0..2^SalBits
SalBits == 1
\* largest image whose pixels are enumerated freely
MaxPix == 4
\* largest candidate set whose 5-subsets are all compared (DiversityOptimal)
MaxSubsetPool == 8
\* largest height and width of the images whose saliency is computed
MaxSalH == 2
MaxSalW == 3

(* Program constants *)

\* (mutant) one round too many: `for _ in range(2, 6)`
PaletteSizeSix == 5 + 1

\* palette size: `for _ in range(2, 5)`
PaletteSize == 5
\* `if np.sum(mask) < 250`
MinBand == 250
\* `if len(pixels) < 5`
MinCandidates == 5
\* `size=min(1000, len(all_pixels))`
MaxSample == 1000

\* the integer that stands for the saliency value 1.0
SalScale == 2^SalBits

\* significant bits of the scalars of distance_metrics.py line 26: float32
\* scalars stay float32 under NumPy 2 and become float64 under NumPy 1.x
FloatBits == {24, 53}

\* the saliency values the enumerated inputs take: 0, a middle value, 1.0
SalLevels == <<0, SalScale \div 2, SalScale>>

-----------------------------------------------------------------------------
(* Generic helpers *)

Min2(a, b) == IF a <= b THEN a ELSE b
Max2(a, b) == IF a >= b THEN a ELSE b
Abs(x) == IF x < 0 THEN -x ELSE x
Range(s) == {s[i] : i \in DOMAIN s}

\* smallest / largest element of a non-empty finite set of integers
SetMin(S) == CHOOSE x \in S : \A y \in S : x <= y
SetMax(S) == -SetMin({-x : x \in S})

\* the elements of s at the positions idx, in that order (numpy fancy indexing)
Take(s, idx) == [i \in 1..Len(idx) |-> s[idx[i]]]

\* np.delete(s, i): s without its i-th element
Delete(s, i) == [j \in 1..(Len(s) - 1) |-> IF j < i THEN s[j] ELSE s[j + 1]]

\* a number held as limbs <<T, M, L>>: the order is the lexicographic one
RealLess(x, y) ==
    \/ x[1] < y[1]
    \/ x[1] = y[1] /\ x[2] < y[2]
    \/ x[1] = y[1] /\ x[2] = y[2] /\ x[3] < y[3]
RealLeq(x, y) == x = y \/ RealLess(x, y)

\* largest / smallest element of a non-empty finite set of such numbers
RealMax(S) ==
    LET t == SetMax({x[1] : x \in S})
        m == SetMax({x[2] : x \in {y \in S : y[1] = t}})
        l == SetMax({x[3] : x \in {y \in S : y[1] = t /\ y[2] = m}})
    IN  <<t, m, l>>
RealMin(S) ==
    LET t == SetMin({x[1] : x \in S})
        m == SetMin({x[2] : x \in {y \in S : y[1] = t}})
        l == SetMin({x[3] : x \in {y \in S : y[1] = t /\ y[2] = m}})
    IN  <<t, m, l>>

\* a saliency weight as such a number
Real(w) == <<w, 0, 0>>

\* (mutant) the last position holding the maximum
np_argmax_last(xs) ==
    LET m == RealMax(Range(xs))
    IN  SetMax({i \in 1..Len(xs) : xs[i] = m})

\* (mutant) the first position holding the minimum
np_argmin(xs) ==
    LET m == RealMin(Range(xs))
    IN  SetMin({i \in 1..Len(xs) : xs[i] = m})

\* np.argmax(xs): the first position holding the maximum
np_argmax(xs) ==
    LET m == RealMax(Range(xs))
    IN  SetMin({i \in 1..Len(xs) : xs[i] = m})

\* all orderings of the finite set S


-----------------------------------------------------------------------------
(* app/core/utils.py : colour space *)

\* IEEE-754 single precision: the record [m, s] is the value m * 2^-s, with
\* 2^23 <= m < 2^24, or m = 0 and s = 0.

\* round to nearest, ties to even: q holds the 24 bits kept and one guard bit
\* below them, sticky tells whether any lower bit is set
RoundNearestEven(q, sticky) ==
    LET m == q \div 2
    IN  IF q % 2 = 1 /\ (sticky \/ m % 2 = 1) THEN m + 1 ELSE m

\* the float32 of mantissa m (2^23 <= m <= 2^24) and scale s
Float32(m, s) ==
    IF m = 2^24 THEN [m |-> 2^23, s |-> s - 1] ELSE [m |-> m, s |-> s]

\* the float32 nearest to (num / den) * 2^-s, for 0 < num / den < 2^25 and
\* den < 64
Float32Quot(num, den, s) ==
    LET k == CHOOSE k \in 0..30 : /\ num * 2^k >= den * 2^24
                                  /\ (k = 0 \/ num * 2^(k - 1) < den * 2^24)
        t == num * 2^k
    IN  Float32(RoundNearestEven(t \div den, t % den # 0), s + k - 1)

\* the float32 product f * 255.0: the 32-bit product of the mantissa is
\* A * 2^12 + B, of which 24 bits and a guard bit are kept
Float32Times255(f) ==
    IF f.m = 0 THEN f
    ELSE LET lo == 255 * (f.m % 4096)
             A  == 255 * (f.m \div 4096) + lo \div 4096
             B  == lo % 4096
             r  == IF A < 2^19 THEN 7 ELSE 8
         IN  Float32(RoundNearestEven(A * 2^(13 - r) + B \div 2^(r - 1),
                                      B % 2^(r - 1) # 0),
                     f.s - r)

\* astype(np.uint8) of a float32 in [0, 256): truncation
Float32Trunc(f) ==
    IF f.s <= 0 THEN f.m * 2^(-f.s)
    ELSE IF f.s > 30 THEN 0
    ELSE f.m \div 2^f.s

\* rgb_to_lab, lines 20-23, on the 8-bit Lab triple px of cv2: the float32 array
\* with L* = float32(l8 * 100.0 / 255.0), the correctly rounded quotient
\* 20 * l8 / 51, and a* = a8 - 128, b* = b8 - 128
rgb_to_lab(px) ==
    [L |-> IF px[1] = 0 THEN [m |-> 0, s |-> 0] ELSE Float32Quot(20 * px[1], 51, 0),
     a |-> px[2] - 128,
     b |-> px[3] - 128]

\* np.clip(x, 0, 255)
Clip8(x) == Max2(0, Min2(255, x))

\* lab_to_rgb, lines 32-38: float32 L * 255.0 / 100.0, a + 128, b + 128,
\* clipped to 0..255 and truncated to uint8
lab_opencv(lab) ==
    LET scaled == Float32Times255(lab.L)
        L255   == IF scaled.m = 0 THEN scaled
                  ELSE Float32Quot(scaled.m, 25, scaled.s + 2)
    IN  <<Clip8(Float32Trunc(L255)), Clip8(lab.a + 128), Clip8(lab.b + 128)>>

\* cv2.cvtColor(lab_opencv, COLOR_LAB2RGB) on an 8-bit Lab triple.  cv2 is a
\* library: its value is written out for the two neutral extremes and is kept
\* as the application <<"LAB2RGB", l8, a8, b8>> to its argument elsewhere.
cv_lab2rgb(t) ==
    IF t = <<255, 128, 128>> THEN <<255, 255, 255>>
    ELSE IF t = <<0, 128, 128>> THEN <<0, 0, 0>>
    ELSE <<"LAB2RGB", t[1], t[2], t[3]>>

\* lab_to_rgb, lines 27-43
lab_to_rgb(lab) == cv_lab2rgb(lab_opencv(lab))

-----------------------------------------------------------------------------
(* app/core/distance_metrics.py *)

\* f * 2^25 for a float32 f in [0.25, 128) or 0, as limbs <<hi, lo>> base 2^16
Limbs25(f) ==
    IF f.m = 0 THEN <<0, 0>>
    ELSE LET sh == 25 - f.s
         IN  <<f.m \div 2^(16 - sh), (f.m % 2^(16 - sh)) * 2^sh>>

\* x - y of two such limb pairs, x >= y
LimbSub(x, y) ==
    IF x[2] >= y[2] THEN <<x[1] - y[1], x[2] - y[2]>>
    ELSE <<x[1] - y[1] - 1, x[2] - y[2] + 2^16>>

\* the number of significant bits of v, 0 <= v < 2^16
BitLen(v) == SetMin({b \in 0..16 : v < 2^b})

\* a magnitude below 2^32 rounded to 24 significant bits, ties to even: what
\* the float32 subtraction keeps of the exact difference
Round24(x) ==
    LET bits == IF x[1] > 0 THEN 16 + BitLen(x[1]) ELSE BitLen(x[2])
        r    == bits - 24
    IN  IF r <= 0 THEN x
        ELSE LET rem  == x[2] % 2^r
                 kept == x[2] - rem
                 up   == \/ 2 * rem > 2^r
                         \/ 2 * rem = 2^r /\ (kept \div 2^r) % 2 = 1
                 lo   == IF up THEN kept + 2^r ELSE kept
             IN  IF lo >= 2^16 THEN <<x[1] + 1, lo - 2^16>> ELSE <<x[1], lo>>

\* line 20: |delta_L| * 2^25, delta_L the float32 difference p_i[0] - p_j[0]
DeltaL25(p_i, p_j) ==
    LET x == Limbs25(p_i.L)
        y == Limbs25(p_j.L)
    IN  IF x[1] > y[1] \/ (x[1] = y[1] /\ x[2] >= y[2])
        THEN Round24(LimbSub(x, y))
        ELSE Round24(LimbSub(y, x))

\* natural numbers of any size: sequences of limbs base 2^15, least
\* significant first
Base == 2^15

\* a number below 2^31 as limbs
RECURSIVE Big(_)
Big(n) == IF n = 0 THEN <<>> ELSE <<n % Base>> \o Big(n \div Base)

BigLimb(x, i) == IF i >= 1 /\ i <= Len(x) THEN x[i] ELSE 0

\* the value of the two lowest limbs
BigLow(x) == BigLimb(x, 1) + Base * BigLimb(x, 2)

\* x * c + carry for 0 <= c, carry <= Base, limb i onwards
RECURSIVE BigScaleFrom(_, _, _, _)
BigScaleFrom(x, c, i, carry) ==
    IF i > Len(x) THEN Big(carry)
    ELSE LET t == x[i] * c + carry
         IN  <<t % Base>> \o BigScaleFrom(x, c, i + 1, t \div Base)
BigScale(x, c, carry) == BigScaleFrom(x, c, 1, carry)

\* x + y, limb i onwards with incoming carry c
RECURSIVE BigAddFrom(_, _, _, _)
BigAddFrom(x, y, i, c) ==
    IF i > Len(x) /\ i > Len(y) THEN Big(c)
    ELSE LET t == BigLimb(x, i) + BigLimb(y, i) + c
         IN  <<t % Base>> \o BigAddFrom(x, y, i + 1, t \div Base)
BigAdd(x, y) == BigAddFrom(x, y, 1, 0)

\* x - y for x >= y, limb i onwards with incoming borrow b
RECURSIVE BigSubFrom(_, _, _, _)
BigSubFrom(x, y, i, b) ==
    IF i > Len(x) THEN <<>>
    ELSE LET t == x[i] - BigLimb(y, i) - b
         IN  <<(t + Base) % Base>> \o BigSubFrom(x, y, i + 1, IF t < 0 THEN 1 ELSE 0)
BigSub(x, y) == BigSubFrom(x, y, 1, 0)

\* x < y, decided at the highest limb from i downwards in which they differ
RECURSIVE BigLessFrom(_, _, _)
BigLessFrom(x, y, i) ==
    IF i = 0 THEN FALSE
    ELSE IF BigLimb(x, i) # BigLimb(y, i) THEN BigLimb(x, i) < BigLimb(y, i)
    ELSE BigLessFrom(x, y, i - 1)
BigLess(x, y) == BigLessFrom(x, y, Max2(Len(x), Len(y)))

\* x * y
RECURSIVE BigMul(_, _)
BigMul(x, y) ==
    IF Len(y) = 0 THEN <<>>
    ELSE BigAdd(BigScale(x, y[1], 0), <<0>> \o BigMul(x, Tail(y)))

\* x * 2^k and x div 2^k
BigShl(x, k) == [i \in 1..(k \div 15) |-> 0] \o BigScale(x, 2^(k % 15), 0)
BigShr(x, k) ==
    LET a == k \div 15
        b == k % 15
    IN  IF Len(x) <= a THEN <<>>
        ELSE <<>> \o [i \in 1..(Len(x) - a) |->
                         x[i + a] \div 2^b + (BigLimb(x, i + a + 1) % 2^b) * 2^(15 - b)]

\* bit b of x, b from 0, and the number of significant bits
BigBit(x, b) == (BigLimb(x, b \div 15 + 1) \div 2^(b % 15)) % 2
BigBitLen(x) ==
    IF \A i \in 1..Len(x) : x[i] = 0 THEN 0
    ELSE LET t == SetMax({i \in 1..Len(x) : x[i] > 0})
         IN  15 * (t - 1) + BitLen(x[t])

\* some bit of x below bit k is set
BigLowBits(x, k) ==
    \E i \in 1..Len(x) :
        IF 15 * i <= k THEN x[i] # 0
        ELSE 15 * (i - 1) < k /\ x[i] % 2^(k - 15 * (i - 1)) # 0

\* IEEE-754 rounding of x to p significant bits, to nearest, ties to even;
\* sticky tells that the exact value lies above x by less than one unit
BigRound(x, sticky, p) ==
    LET r == BigBitLen(x) - p
    IN  IF r <= 0 THEN x
        ELSE LET q    == BigShr(x, r)
                 rest == sticky \/ BigLowBits(x, r - 1)
                 up   == BigBit(x, r - 1) = 1 /\ (rest \/ BigBit(x, r) = 1)
             IN  BigShl(IF up THEN BigAdd(q, <<1>>) ELSE q, r)

\* the integer square root of x, two bits of x per step from the top pair i
\* downwards, and whether it is exact
RECURSIVE BigSqrtFrom(_, _, _, _)
BigSqrtFrom(x, i, root, rem) ==
    IF i = 0 THEN [root |-> root, exact |-> \A k \in 1..Len(rem) : rem[k] = 0]
    ELSE LET r2    == BigScale(rem, 4, 2 * BigBit(x, 2 * i - 1) + BigBit(x, 2 * i - 2))
             trial == BigScale(root, 4, 1)
         IN  IF BigLess(r2, trial)
             THEN BigSqrtFrom(x, i - 1, BigScale(root, 2, 0), r2)
             ELSE BigSqrtFrom(x, i - 1, BigScale(root, 2, 1), BigSub(r2, trial))
BigSqrt(x) == BigSqrtFrom(x, (BigBitLen(x) + 1) \div 2, <<>>, <<>>)

\* line 26 in arithmetic of bits significant bits:
\* np.sqrt((delta_L * 0.5)**2 + delta_a**2 + delta_b**2), times 2^55, as limbs
\* <<T, M, L>> base 2^22.  delta_L * 0.5 is exact; the square, the first sum,
\* the second sum (all held times 2^52) and the root are rounded in turn; the
\* squares of delta_a and delta_b are integers below 2^17, exact in both
\* precisions.  The root of sum_ab * 2^-52, times 2^57, is the root of
\* sum_ab * 2^62.
np_distance(bits, p_i, p_j) ==
    LET d       == DeltaL25(p_i, p_j)
        delta_L == BigAdd(Big(d[2]), BigShl(Big(d[1]), 16))
        delta_a == p_i.a - p_j.a
        delta_b == p_i.b - p_j.b
        square  == BigRound(BigMul(delta_L, delta_L), FALSE, bits)
        sum_a   == BigRound(BigAdd(square, BigShl(Big(delta_a * delta_a), 52)), FALSE, bits)
        sum_ab  == BigRound(BigAdd(sum_a, BigShl(Big(delta_b * delta_b), 52)), FALSE, bits)
        rt      == BigSqrt(BigShl(sum_ab, 62))
        dist    == BigShr(BigRound(rt.root, ~rt.exact, bits), 2)
    IN  <<BigLow(BigShr(dist, 44)), BigLow(BigShr(dist, 22)) % 2^22, BigLow(dist) % 2^22>>

\* cv2 8-bit Lab triples of pure red, green, blue and white
Red   == <<136, 208, 195>>
Green == <<224, 42, 211>>
Blue  == <<82, 207, 20>>
White == <<255, 128, 128>>

\* six greys-with-a-tint on one line of the a axis (offsets 2,0,4,5,6,8)
LineColors == <<<<128, 130, 128>>, <<128, 128, 128>>, <<128, 132, 128>>,
                <<128, 133, 128>>, <<128, 134, 128>>, <<128, 136, 128>>>>

\* three colours of which the second and the third are 10 away from the
\* first, one along a*, one along L*: L* = float32(38 * 100/255) and
\* float32(89 * 100/255) differ by 20.000002, not by 20
TieColors == <<<<38, 128, 128>>, <<38, 138, 128>>, <<89, 128, 128>>>>

\* a colour and two colours equally far from it on paper (delta_a, delta_b =
\* 54, -69 and 69, 54, same delta_L), which the rounded sums of line 26
\* separate in both precisions, and a colour far from all three
RoundColors == <<<<16, 142, 194>>, <<15, 196, 125>>, <<15, 211, 248>>, <<16, 0, 194>>>>

\* a colour and two colours whose distances from it differ in float64 and
\* coincide in float32
MergeColors == <<<<173, 185, 189>>, <<224, 146, 130>>, <<122, 146, 130>>>>

\* the sets of colours that meet in one image of the model
Palettes8 ==
    { {Red, Green, Blue, White}, Range(LineColors),
      Range(TieColors) \cup {Blue}, Range(RoundColors) \cup {Blue},
      Range(MergeColors) \cup {Blue} }

\* the pairs of Lab samples a call of weighted_lab_distance can receive
ColorPairs ==
    UNION {{<<rgb_to_lab(c), rgb_to_lab(e)>> : c \in S, e \in S} : S \in Palettes8}

\* line 26 on every such pair, in either precision, tabulated
Line26 ==
    [bits \in FloatBits |->
        [pq \in ColorPairs |-> np_distance(bits, pq[1], pq[2])] @@ <<>>]

\* line 26: distance, in the precision of the installed NumPy
LabDistance(p_i, p_j) == Line26[float_bits][<<p_i, p_j>>]

\* the product of the limbs x >= 0 with the integer k, renormalised
RealTimes(k, x) ==
    LET a  == Abs(k)
        sg == IF k < 0 THEN -1 ELSE 1
        l  == a * x[3]
        m  == a * x[2] + l \div 2^22
    IN  <<sg * (a * x[1] + m \div 2^22), sg * (m % 2^22), sg * (l % 2^22)>>

\* (mutant) the saliency weight is not applied
UnweightedLabDistance(p_i, p_j, w_pi) == LabDistance(p_i, p_j)

\* lines 26-29: w_pi * distance; w_pi is a multiple of a power of two, the
\* product is exact
weighted_lab_distance(p_i, p_j, w_pi) == RealTimes(w_pi, LabDistance(p_i, p_j))

\* the number -1 (initial max_min_dist) under the same encoding
InitMaxMinDist == <<-(SalScale * 2^11), 0, 0>>

-----------------------------------------------------------------------------
(* app/core/palette_extraction.py : sampler, lines 15-40 *)

\* the k-th smallest element (k from 0) of the sequence a
Kth(a, k) ==
    CHOOSE v \in Range(a) :
        /\ Cardinality({i \in DOMAIN a : a[i] < v}) <= k
        /\ k < Cardinality({i \in DOMAIN a : a[i] <= v})

\* 2^p modulo 100
RECURSIVE Pow2Mod100(_)
Pow2Mod100(p) == IF p = 0 THEN 1 ELSE (2 * Pow2Mod100(p - 1)) % 100

\* the float64 q / 100.0 (np.true_divide(q, 100)) has a 53-bit mantissa at
\* scale 2^-(52+z), z the least integer with q * 2^z >= 100; it equals
\* q/100 + QuantileError(q) / (100 * 2^(52+z))
QuantileScale(q) == CHOOSE z \in 0..7 : q * 2^z >= 100 /\ (z = 0 \/ q * 2^(z - 1) < 100)
QuantileError(q) ==
    LET r == (q * Pow2Mod100(52 + QuantileScale(q))) % 100
    IN  IF r > 50 THEN 100 - r ELSE -r

\* numpy's virtual index (n - 1) * (q / 100.0) in float64, when q * (n - 1) / 100
\* is the integer t >= 1: -1, 0 or 1 as the double product lies below, on or
\* above t.  The exact product is off t by (n - 1) * QuantileError(q) /
\* (100 * 2^(52+z)); it rounds to t unless that exceeds half the gap to the
\* next double, a gap of 2^(k-52) for 2^k <= t < 2^(k+1) (half of it below a
\* power of two); a tie rounds to t, whose mantissa is even.
VirtualIndexSide(n, q) ==
    LET t   == (q * (n - 1)) \div 100
        e   == QuantileError(q)
        k   == CHOOSE k \in 0..20 : 2^k <= t /\ t < 2^(k + 1)
        gap == IF e < 0 /\ t = 2^k
               THEN 100 * 2^(k + QuantileScale(q) - 1)
               ELSE 100 * 2^(k + QuantileScale(q))
    IN  IF 2 * (n - 1) * Abs(e) > gap THEN (IF e > 0 THEN 1 ELSE -1) ELSE 0

\* np.percentile(a, q), method 'linear', times 200: a[lo] + gamma * (a[hi] -
\* a[lo]) at the virtual index lo + gamma.  When the double index misses the
\* integer t it lies one double off: just below, the result is
\* a[t] - (a[t] - a[t-1]) * (1 - gamma), a double just below a[t] and above
\* every smaller sample (200*a[t] - 1) unless a[t-1] = a[t]; just above, it
\* is a[t] + (a[t+1] - a[t]) * gamma, just above a[t] (200*a[t] + 1).
np_percentile(a, q) ==
    LET n   == Len(a)
        pos == q * (n - 1)
        lo  == pos \div 100
        fr  == pos % 100
        hi  == Min2(lo + 1, n - 1)
    IN  IF fr # 0 \/ lo = 0
        THEN 200 * Kth(a, lo) + 2 * fr * (Kth(a, hi) - Kth(a, lo))
        ELSE LET side == VirtualIndexSide(n, q)
             IN  IF side < 0 /\ Kth(a, lo - 1) < Kth(a, lo) THEN 200 * Kth(a, lo) - 1
                 ELSE IF side > 0 /\ Kth(a, lo) < Kth(a, hi) THEN 200 * Kth(a, lo) + 1
                 ELSE 200 * Kth(a, lo)

\* line 24: (saliency_flat > low_threshold) & (saliency_flat < high_threshold)
BandMask(sal) ==
    LET low_threshold  == np_percentile(sal, 20)
        high_threshold == np_percentile(sal, 80)
    IN  [i \in DOMAIN sal |->
            200 * sal[i] > low_threshold /\ 200 * sal[i] < high_threshold]

\* (mutant) the fallback filter keeps pixels equal to the threshold (>=)
HighMaskInclusive(sal) ==
    LET threshold == np_percentile(sal, 70)
    IN  [i \in DOMAIN sal |-> 200 * sal[i] >= threshold]

\* line 29: saliency_flat > np.percentile(saliency_flat, 70)
HighMask(sal) ==
    LET threshold == np_percentile(sal, 70)
    IN  [i \in DOMAIN sal |-> 200 * sal[i] > threshold]

\* np.sum(mask)
CountTrue(m) == Cardinality({i \in DOMAIN m : m[i]})

\* (mutant) a band of exactly 250 pixels is dropped as well (`<=` for `<`)
UsesBandAbove(sal) == ~(CountTrue(BandMask(sal)) <= MinBand)

\* lines 27-29: which percentile filter is applied
UsesBand(sal) == ~(CountTrue(BandMask(sal)) < MinBand)
FilterMask(sal) == IF UsesBand(sal) THEN BandMask(sal) ELSE HighMask(sal)

\* positions selected by a boolean mask, ascending (boolean indexing)
MaskIdx(m) == SelectSeq([i \in 1..Len(m) |-> i], LAMBDA i : m[i])

\* (mutant) the random fallback is never taken
NeedsRandomNever(n_kept) == FALSE

\* line 35: `if len(pixels) < 5`
NeedsRandom(n_kept) == n_kept < MinCandidates

\* line 38: np.random.choice(n, size, replace=False), which NumPy computes as
\* permutation(n)[:size]: the possible outcomes are the first size positions
\* of every permutation of the n positions
RandomChoice(n, size) == {SubSeq(p, 1, size) : p \in Permutations(1..n)}

-----------------------------------------------------------------------------
(* Inputs *)

\* colours of the freely enumerated small images
SmallColors == <<Red, White>>

\* the k-th (colour, saliency) pair of the small images' pixel domain
DomSize == Len(SmallColors) * Len(SalLevels)
DomPix(k) == [c |-> SmallColors[((k - 1) \div Len(SalLevels)) + 1],
              s |-> SalLevels[((k - 1) % Len(SalLevels)) + 1]]

\* non-decreasing sequences of length n over lo..DomSize
RECURSIVE NonDec(_, _)
NonDec(n, lo) ==
    IF n = 0 THEN {<<>>}
    ELSE UNION {{<<x>> \o q : q \in NonDec(n - 1, x)} : x \in lo..DomSize}

\* an input of extract_palette: image and saliency field with their shapes
Input(img, ishape, sal, sshape) ==
    [img |-> img, ishape |-> ishape, sal |-> sal, sshape |-> sshape]

\* a 1 x n image and its saliency field from a sequence of (colour, saliency)
Row(px) ==
    Input([i \in 1..Len(px) |-> px[i].c], <<1, Len(px)>>,
          [i \in 1..Len(px) |-> px[i].s], <<1, Len(px)>>)

\* n copies of the pixel (c, s)
Rep(n, c, s) == [i \in 1..n |-> [c |-> c, s |-> s]]

\* small images: every multiset of 1..MaxPix pixels of the domain (the random
\* sample, which all of them take, supplies every order)
SmallInputs ==
    UNION {{Row([i \in 1..n |-> DomPix(q[i])]) : q \in NonDec(n, 1)} : n \in 1..MaxPix}

\* six pairwise distinct colours, uniform saliency 1.0
LineInputs == {Row([i \in 1..6 |-> [c |-> LineColors[i], s |-> SalScale]])}

\* four equal quadrants of red, green, blue, white, saliency 1.0 everywhere:
\* 2 x 2 (1 x 1 quadrants) and 2 x 4 (1 x 2 quadrants)
QuadInputs ==
    { Input(<<Red, Green, Blue, White>>, <<2, 2>>,
            [i \in 1..4 |-> SalScale], <<2, 2>>),
      Input(<<Red, Red, Green, Green, Blue, Blue, White, White>>, <<2, 4>>,
            [i \in 1..8 |-> SalScale], <<2, 4>>) }

\* pixels of non-zero saliency from the small domain
TailPix == {k \in 1..DomSize : DomPix(k).s > 0}

\* 13 pixels of saliency 0, then 5 or 6 of non-zero saliency in any order:
\* the 70th percentile lies below every non-zero value, so exactly the last
\* 5 or 6 pixels pass it
MediumInputs ==
    UNION {{Row(Rep(13, Blue, 0) \o [i \in 1..m |-> DomPix(q[i])]) :
               q \in [1..m -> TailPix]} : m \in {5, 6}}

\* 84 low, m middle, 84 high pixels: the middle ones (m - 4 white, then 4 of
\* any colours) are the band between the 20th and the 80th percentile
BigInputs ==
    {Row(Rep(84, Blue, 0) \o Rep(m - 4, White, SalLevels[2])
         \o [i \in 1..4 |-> [c |-> q[i], s |-> SalLevels[2]]]
         \o Rep(84, Green, SalLevels[3])) :
        m \in {MinBand - 1, MinBand}, q \in [1..4 -> {Red, White}]}

\* nine pixels of saliency low x 2, mid x 5, high x 2: the five middle ones
\* lie strictly inside the band, only the two high ones lie above the 70th
\* percentile.  No image of fewer than 9 pixels has 5 pixels strictly inside
\* the band.
BandLostInputs ==
    {Row(Rep(2, Blue, SalLevels[1])
         \o [i \in 1..5 |-> [c |-> IF i = 1 THEN c1 ELSE White, s |-> SalLevels[2]]]
         \o Rep(2, Green, SalLevels[3])) : c1 \in {Red, White}}

\* 91 pixels, z of saliency 0 and 91 - z of non-zero saliency (the last 4 of
\* any colours): the 70th percentile sits at index 0.7 * 90, which the double
\* product puts just below 63.  With z = 63 the threshold falls between
\* a[62] = 0 and a[63] > 0; with z = 64 both are 0.
OffIndexInputs ==
    {Row(Rep(z, Blue, 0) \o Rep(87 - z, White, SalLevels[v])
         \o [i \in 1..4 |-> [c |-> q[i], s |-> SalLevels[u]]]) :
        z \in {63, 64}, v \in {2, 3}, u \in {2, 3}, q \in [1..4 -> {Red, White}]}

\* 13 pixels of saliency 0, then 5 of saliency 1.0 and of those colours
TieInputs ==
    {Row(Rep(13, Blue, 0) \o [i \in 1..5 |-> [c |-> TieColors[q[i]], s |-> SalScale]]) :
        q \in [1..5 -> 1..3]}

\* the same with the colours whose distances only the rounding of line 26
\* separates, and with those it separates in float64 only
RoundInputs ==
    {Row(Rep(13, Blue, 0) \o [i \in 1..5 |-> [c |-> RoundColors[q[i]], s |-> SalScale]]) :
        q \in [1..5 -> 1..4]}
MergeInputs ==
    {Row(Rep(13, Blue, 0) \o [i \in 1..5 |-> [c |-> MergeColors[q[i]], s |-> SalScale]]) :
        q \in [1..5 -> 1..3]}

Inputs ==
    SmallInputs \cup LineInputs \cup {inp \in QuadInputs : Len(inp.img) <= MaxPix}
        \cup MediumInputs \cup BigInputs \cup OffIndexInputs \cup TieInputs \cup RoundInputs \cup MergeInputs

-----------------------------------------------------------------------------
(* extract_palette as a state machine *)

\* the state in which extract_palette has not been entered on the input inp
Idle(inp, at) ==
    /\ image = inp.img
    /\ img_shape = inp.ishape
    /\ saliency_map = inp.sal
    /\ sal_shape = inp.sshape
    /\ float_bits \in FloatBits
    /\ pc = at
    /\ path = "none"
    /\ indices = <<>>
    /\ pixels = <<>>
    /\ saliency_flat = <<>>
    /\ selected = <<>>
    /\ selected_indices = <<>>
    /\ candidates = <<>>
    /\ saliency_cand = <<>>
    /\ cand_idx = <<>>
    /\ rnd = 0
    /\ palette = <<>>
    /\ normalized = <<>>

\* no saliency computation and no direct distance call in progress
NoSaliency == rgb = <<>> /\ s1 = <<>> /\ s2 = <<>> /\ combined = <<>>
NoDistance == args = <<>> /\ result = <<>>

\* extract_palette(image, saliency_map) is entered
Start(inp) == Idle(inp, "start") /\ NoSaliency /\ NoDistance

Init == \E inp \in Inputs : Start(inp)

\* lines 12-40: Lab conversion, flattening, percentile filter, fallbacks.
\* `pixels[mask]` raises IndexError when the flattened saliency field and the
\* flattened image differ in length.
Sample ==
    /\ pc = "start"
    /\ \E lab_image \in {[i \in 1..Len(image) |-> rgb_to_lab(image[i])]},
          n \in {Len(image)} :
           IF Len(saliency_map) # n
           THEN /\ pc' = "error"
                /\ UNCHANGED sampleVars
           ELSE \E kept \in {MaskIdx(FilterMask(saliency_map))} :
                    \E idx \in IF NeedsRandom(Len(kept))
                                THEN RandomChoice(n, Min2(MaxSample, n))
                                ELSE {kept} :
                        /\ indices' = idx
                        /\ path' = IF NeedsRandom(Len(kept)) THEN "random"
                                   ELSE IF UsesBand(saliency_map) THEN "band"
                                   ELSE "p70"
                        /\ pixels' = Take(lab_image, idx)
                        /\ saliency_flat' = Take(saliency_map, idx)
                        /\ pc' = "seed"
    /\ UNCHANGED <<inputVars, selectVars, palette, callVars, salVars, distVars>>

\* (mutant) every candidate is measured against itself instead of seed 1
SeedDistancesToSelf(px, p1, w1) ==
    [i \in 1..Len(px) |-> weighted_lab_distance(px[i], px[i], w1)]

\* (mutant) the distances enter with the opposite sign: the nearest wins
SeedDistancesNearest(px, p1, w1) ==
    [i \in 1..Len(px) |-> RealTimes(-1, weighted_lab_distance(px[i], p1, w1))]

\* line 49: distances = [weighted_lab_distance(p, p1, w1) for p in pixels]
SeedDistances(px, p1, w1) ==
    [i \in 1..Len(px) |-> weighted_lab_distance(px[i], p1, w1)]

\* lines 42-61: the two seeds and the remaining pool
Seed ==
    /\ pc = "seed"
    /\ \E idx_max_saliency \in {np_argmax([i \in 1..Len(saliency_flat) |->
                                                 Real(saliency_flat[i])])} :
       \E idx_farthest \in {np_argmax(SeedDistances(pixels, pixels[idx_max_saliency],
                                                    saliency_flat[idx_max_saliency]))} :
       \E rest \in {MaskIdx([i \in 1..Len(pixels) |->
                                i # idx_max_saliency /\ i # idx_farthest])} :
           /\ selected' = <<[p |-> pixels[idx_max_saliency],
                             w |-> saliency_flat[idx_max_saliency]],
                            [p |-> pixels[idx_farthest],
                             w |-> saliency_flat[idx_farthest]]>>
           /\ selected_indices' = <<idx_max_saliency, idx_farthest>>
           /\ candidates' = Take(pixels, rest)
           /\ saliency_cand' = Take(saliency_flat, rest)
           /\ cand_idx' = rest
    /\ rnd' = 2
    /\ pc' = "greedy"
    /\ UNCHANGED <<inputVars, sampleVars, palette, callVars, salVars, distVars>>

\* (mutant) the candidate's maximal distance to the selected colours
MaxDist(candidate, sel) ==
    RealMax({weighted_lab_distance(candidate, sel[k].p, sel[k].w) : k \in 1..Len(sel)})

\* line 73: the candidate's minimal distance to the already selected colours
MinDist(candidate, sel) ==
    RealMin({weighted_lab_distance(candidate, sel[k].p, sel[k].w) : k \in 1..Len(sel)})

\* (mutant) the scan starts from max_min_dist = 0 instead of -1
BestIdxFromZero(cands, sel) ==
    IF Len(cands) = 0 THEN 0
    ELSE LET min_dist == [i \in 1..Len(cands) |-> MinDist(cands[i], sel)]
             best     == np_argmax(min_dist)
         IN  IF RealLess(Real(0), min_dist[best]) THEN best ELSE 0

\* lines 66-79: the scan for the best candidate; 0 stands for None.
\* The scan keeps the first candidate whose min_dist exceeds every earlier
\* one, starting from max_min_dist = -1.
BestIdx(cands, sel) ==
    IF Len(cands) = 0 THEN 0
    ELSE LET min_dist == [i \in 1..Len(cands) |-> MinDist(cands[i], sel)]
             best     == np_argmax(min_dist)
         IN  IF RealLess(InitMaxMinDist, min_dist[best]) THEN best ELSE 0

\* (mutant) the head of the pool is removed whatever was chosen
RemoveCandidateHead(cands, best_idx) == Tail(cands)

\* line 84: candidates = np.delete(candidates, best_idx, axis=0)
RemoveCandidate(cands, best_idx) == Delete(cands, best_idx)

\* (mutant) the chosen candidate's weight is left in the pool
RemoveWeightStale(weights, best_idx) == weights

\* line 85: saliency_cand = np.delete(saliency_cand, best_idx)
RemoveWeight(weights, best_idx) == Delete(weights, best_idx)

\* lines 65-85: one iteration of `for _ in range(2, 5)`
Greedy ==
    /\ pc = "greedy"
    /\ \E best_idx \in {BestIdx(candidates, selected)} :
           IF best_idx # 0
           THEN /\ selected' = Append(selected, [p |-> candidates[best_idx],
                                                 w |-> saliency_cand[best_idx]])
                /\ selected_indices' = Append(selected_indices, cand_idx[best_idx])
                /\ candidates' = RemoveCandidate(candidates, best_idx)
                /\ saliency_cand' = RemoveWeight(saliency_cand, best_idx)
                /\ cand_idx' = Delete(cand_idx, best_idx)
           ELSE UNCHANGED <<selected, selected_indices, candidates,
                            saliency_cand, cand_idx>>
    /\ rnd' = rnd + 1
    /\ pc' = IF rnd + 1 < PaletteSize THEN "greedy" ELSE "convert"
    /\ UNCHANGED <<inputVars, sampleVars, palette, callVars, salVars, distVars>>

\* lines 87-96: back to RGB, pairing every colour with its weight
Convert ==
    /\ pc = "convert"
    /\ palette' = [i \in 1..Len(selected) |->
                      [RGB |-> lab_to_rgb(selected[i].p), Weight |-> selected[i].w]]
    /\ pc' = "done"
    /\ UNCHANGED <<inputVars, sampleVars, selectVars, callVars, salVars, distVars>>

Next == Sample \/ Seed \/ Greedy \/ Convert

Spec == Init /\ [][Next]_vars

\* the four-quadrant images alone, every outcome of the random sample of their
\* 4 or 8 pixels
InitQuad == \E inp \in QuadInputs : Start(inp)

SpecQuad == InitQuad /\ [][Next]_vars

\* the sampling stage alone (lines 12-40), which also follows the 9! samples
\* of the nine-pixel images
InitSampler == \E inp \in Inputs \cup BandLostInputs : Start(inp)

SpecSampler == InitSampler /\ [][Sample]_vars


-----------------------------------------------------------------------------
(* extract_palette called with a saliency field of another shape *)

\* a 3 x 6 image: 13 blue pixels, then red, green, white, red, green
ShapeImage ==
    [i \in 1..18 |-> IF i <= 13 THEN Blue
                     ELSE <<Red, Green, White, Red, Green>>[i - 13]]

\* a saliency field of n values: 13 of 0, then k of 1.0, then the middle value
StepField(n, k) ==
    [i \in 1..n |-> IF i <= 13 THEN 0
                    ELSE IF i <= 13 + k THEN SalLevels[3] ELSE SalLevels[2]]

\* the 3 x 6 image with fields of its own shape, of other shapes with the
\* same number of values (6 x 3, 2 x 9, 1 x 18, 18 x 1) and with fewer or
\* more values (4 x 4, 4 x 5); the 2 x 2 quadrant image with flat fields of
\* 2 x 2, 1 x 4, 4 x 1 and 1 x 3 values
ShapeInputs ==
    {Input(ShapeImage, <<3, 6>>, StepField(sh[1] * sh[2], k), sh) :
        sh \in {<<3, 6>>, <<6, 3>>, <<2, 9>>, <<1, 18>>, <<18, 1>>, <<4, 4>>, <<4, 5>>},
        k \in 0..5}
    \cup {Input(<<Red, Green, Blue, White>>, <<2, 2>>,
                [i \in 1..(sh[1] * sh[2]) |-> SalScale], sh) :
             sh \in {<<2, 2>>, <<1, 4>>, <<4, 1>>, <<1, 3>>}}

InitShape == \E inp \in ShapeInputs : Start(inp)

SpecShape == InitShape /\ [][Next]_vars

-----------------------------------------------------------------------------
(* weighted_lab_distance called directly *)

\* weights of the direct calls
DistWeights == {SalLevels[1], SalLevels[2], SalLevels[3], -SalLevels[3]}

InitDist ==
    /\ Idle(Input(<<>>, <<0, 0>>, <<>>, <<0, 0>>), "dist_call")
    /\ NoSaliency
    /\ args \in {[p |-> pq[1], q |-> pq[2], w_p |-> a, w_q |-> b] :
                    pq \in ColorPairs, a \in DistWeights, b \in DistWeights}
    /\ result = <<>>

\* the three calls compared: (p, q, w_p), (q, p, w_q) and (q, p, w_p)
Measure ==
    /\ pc = "dist_call"
    /\ result' = [pq      |-> weighted_lab_distance(args.p, args.q, args.w_p),
                  qp      |-> weighted_lab_distance(args.q, args.p, args.w_q),
                  swapped |-> weighted_lab_distance(args.q, args.p, args.w_p)]
    /\ pc' = "dist_done"
    /\ UNCHANGED <<inputVars, sampleVars, selectVars, palette, callVars, salVars, args>>

NextDist == Measure

SpecDist == InitDist /\ [][NextDist]_vars

-----------------------------------------------------------------------------
(* app/core/saliency.py                                                     *)
(*                                                                          *)
(* An 8-bit plane is a row-major sequence of integers.  A real-valued field *)
(* is a record [num, den]: the value at position i is num[i] / den.         *)

RECURSIVE SumSeq(_)
SumSeq(s) == IF s = <<>> THEN 0 ELSE Head(s) + SumSeq(Tail(s))

\* cv2.cvtColor(image, COLOR_RGB2GRAY) on 8-bit pixels: fixed-point
\* 0.299 R + 0.587 G + 0.114 B, rounded
cv_rgb2gray(px) == (4899 * px[1] + 9617 * px[2] + 1868 * px[3] + 8192) \div 16384

\* RGB pixels of the images whose saliency is computed
RgbBlack == <<0, 0, 0>>
RgbWhite == <<255, 255, 255>>
RgbRed   == <<255, 0, 0>>
RgbGreen == <<0, 255, 0>>
RgbBlue  == <<0, 0, 255>>

\* cv2.cvtColor(image, COLOR_RGB2LAB) on 8-bit pixels, for the colours above
cv_rgb2lab(px) ==
    CASE px = RgbBlack -> <<0, 128, 128>>
      [] px = RgbWhite -> White
      [] px = RgbRed   -> Red
      [] px = RgbGreen -> Green
      [] px = RgbBlue  -> Blue

\* BORDER_REFLECT_101 (the default border): position i of an axis of length n
Reflect101(i, n) ==
    IF n = 1 THEN 0
    ELSE LET r == i % (2 * (n - 1))
         IN  IF r < n THEN r ELSE 2 * (n - 1) - r

\* the value of the plane x (h rows, w columns) at row r, column c, with the
\* border reflected
At(x, h, w, r, c) == x[Reflect101(r, h) * w + Reflect101(c, w) + 1]

\* kernels of cv2.GaussianBlur for sigma 0: (1, 2, 1)/4 and (1, 4, 6, 4, 1)/16
Gauss3 == <<1, 2, 1>>
Gauss5 == <<1, 4, 6, 4, 1>>

\* the separable kernel k applied in both directions, times SumSeq(k)^2
Conv2(x, h, w, k) ==
    LET n    == Len(k)
        half == n \div 2
    IN  [p \in 1..(h * w) |->
            LET r == (p - 1) \div w
                c == (p - 1) % w
            IN  SumSeq([t \in 1..(n * n) |->
                    LET i == (t - 1) \div n
                        j == (t - 1) % n
                    IN  k[i + 1] * k[j + 1]
                            * At(x, h, w, r + i - half, c + j - half)])]

\* cv2.GaussianBlur on an 8-bit plane: rounded to the nearest integer
GaussianBlur8(x, h, w, k) ==
    LET total == SumSeq(k) * SumSeq(k)
        acc   == Conv2(x, h, w, k)
    IN  [p \in 1..(h * w) |-> (2 * acc[p] + total) \div (2 * total)]

\* cv2.GaussianBlur on a real-valued field
GaussianBlurReal(f, h, w, k) ==
    [num |-> Conv2(f.num, h, w, k), den |-> f.den * SumSeq(k) * SumSeq(k)]

\* cv2.Laplacian(blur, CV_64F), aperture 1: the 4-neighbour sum minus 4 times
\* the centre
Laplacian(x, h, w) ==
    [p \in 1..(h * w) |->
        LET r == (p - 1) \div w
            c == (p - 1) % w
        IN  At(x, h, w, r - 1, c) + At(x, h, w, r + 1, c)
                + At(x, h, w, r, c - 1) + At(x, h, w, r, c + 1)
                - 4 * At(x, h, w, r, c)]

\* utils.py lines 45-54, normalize_map: a flat field becomes 0.5 everywhere.
\* saliency.py never calls it.
normalize_map(f) ==
    LET lo == SetMin(Range(f.num))
        hi == SetMax(Range(f.num))
    IN  IF hi = lo
        THEN [num |-> [i \in 1..Len(f.num) |-> 1], den |-> 2]
        ELSE [num |-> [i \in 1..Len(f.num) |-> f.num[i] - lo], den |-> hi - lo]

\* cv2.normalize(m, None, 0, 1, cv2.NORM_MINMAX): (x - min) / (max - min);
\* when max = min the scale is 0 and the field becomes 0 everywhere
cv_normalize(f) ==
    LET lo == SetMin(Range(f.num))
        hi == SetMax(Range(f.num))
    IN  IF hi = lo
        THEN [num |-> [i \in 1..Len(f.num) |-> 0], den |-> 1]
        ELSE [num |-> [i \in 1..Len(f.num) |-> f.num[i] - lo], den |-> hi - lo]

\* np.linalg.norm of a 3-vector whose norm is an integer: the root of the sum
\* of the squares.  The images enumerated below are uniform or black and
\* white, so that the a and b planes are constant and the norm is |dl|; a
\* vector whose norm is irrational has no value here.
Norm3(dl, da, db) ==
    CHOOSE r \in 0..(Abs(dl) + Abs(da) + Abs(db)) :
        r * r = dl * dl + da * da + db * db

\* lines 26-43: |Laplacian| of the blurred grey image, normalised
graph_based_saliency(img, h, w) ==
    LET gray      == [p \in 1..(h * w) |-> cv_rgb2gray(img[p])]
        blur      == GaussianBlur8(gray, h, w, Gauss3)
        laplacian == Laplacian(blur, h, w)
    IN  cv_normalize([num |-> [p \in 1..(h * w) |-> Abs(laplacian[p])], den |-> 1])

\* lines 7-23: distance of the blurred Lab image from the mean Lab colour,
\* normalised.  The mean of channel ch is SumSeq(plane) / (h * w).
frequency_tuned_saliency(img, h, w) ==
    LET n       == h * w
        plane   == [ch \in 1..3 |-> [p \in 1..n |-> cv_rgb2lab(img[p])[ch]]]
        total   == [ch \in 1..3 |-> SumSeq(plane[ch])]
        blurred == [ch \in 1..3 |-> GaussianBlur8(plane[ch], h, w, Gauss5)]
    IN  cv_normalize([num |-> [p \in 1..n |->
                                  Norm3(n * blurred[1][p] - total[1],
                                        n * blurred[2][p] - total[2],
                                        n * blurred[3][p] - total[3])],
                      den |-> n])

\* line 55: (s1 + s2) / 2.0
Average(f, g) ==
    [num |-> [p \in 1..Len(f.num) |-> f.num[p] * g.den + g.num[p] * f.den],
     den |-> 2 * f.den * g.den]

\* images: every h x w arrangement of black and white pixels and the uniform
\* red, green and blue images, h in 1..MaxSalH, w in 1..MaxSalW
SalImages(h, w) ==
    [1..(h * w) -> {RgbBlack, RgbWhite}]
        \cup {[p \in 1..(h * w) |-> c] : c \in {RgbRed, RgbGreen, RgbBlue}}

InitSal ==
    \E h \in 1..MaxSalH, w \in 1..MaxSalW :
        \E img \in SalImages(h, w) :
            /\ Idle(Input([p \in 1..(h * w) |-> cv_rgb2lab(img[p])], <<h, w>>,
                          <<>>, <<0, 0>>), "sal_start")
            /\ rgb = img
            /\ s1 = <<>>
            /\ s2 = <<>>
            /\ combined = <<>>
            /\ NoDistance

\* line 51: s1 = graph_based_saliency(image)
GraphBased ==
    /\ pc = "sal_start"
    /\ s1' = graph_based_saliency(rgb, img_shape[1], img_shape[2])
    /\ pc' = "sal_s1"
    /\ UNCHANGED <<inputVars, sampleVars, selectVars, palette, callVars,
                   rgb, s2, combined, distVars>>

\* line 52: s2 = frequency_tuned_saliency(image)
FrequencyTuned ==
    /\ pc = "sal_s1"
    /\ s2' = frequency_tuned_saliency(rgb, img_shape[1], img_shape[2])
    /\ pc' = "sal_s2"
    /\ UNCHANGED <<inputVars, sampleVars, selectVars, palette, callVars,
                   rgb, s1, combined, distVars>>

\* lines 55-62: average, 5 x 5 Gaussian blur, final normalisation
Combine ==
    /\ pc = "sal_s2"
    /\ combined' = cv_normalize(GaussianBlurReal(Average(s1, s2),
                                                 img_shape[1], img_shape[2], Gauss5))
    /\ pc' = "sal_done"
    /\ UNCHANGED <<inputVars, sampleVars, selectVars, palette, callVars,
                   rgb, s1, s2, distVars>>

NextSal == GraphBased \/ FrequencyTuned \/ Combine

SpecSal == InitSal /\ [][NextSal]_vars

-----------------------------------------------------------------------------
(* presentation layer: app/main_app.py lines 140-147 and                    *)
(* app/visualization/plot_palette.py lines 13-26.  A display weight is the  *)
(* fraction num / den.                                                      *)

\* sum(color_info['Weight'] for color_info in palette) / np.sum(weights)
TotalWeight(pal) == SumSeq([k \in 1..Len(pal) |-> pal[k].Weight])

\* every entry with its Weight divided by the total
DisplayWeights(pal) ==
    [k \in 1..Len(pal) |->
        [RGB |-> pal[k].RGB,
         Weight |-> [num |-> pal[k].Weight, den |-> TotalWeight(pal)]]]

\* main_app.py lines 140-147: float division, which raises
\* ZeroDivisionError when the total weight is 0.0
Normalize ==
    /\ pc = "done"
    /\ IF TotalWeight(palette) = 0
       THEN /\ pc' = "norm_error"
            /\ UNCHANGED normalized
       ELSE /\ normalized' = DisplayWeights(palette)
            /\ pc' = "normalized"
    /\ UNCHANGED <<inputVars, sampleVars, selectVars, palette, salVars, distVars>>

\* plot_palette.py lines 13-26: numpy division, which yields nan weights
\* when the total weight is 0; int(bar_width * nan) then raises ValueError
ShowPalette ==
    /\ pc = "done"
    /\ IF TotalWeight(palette) = 0
       THEN /\ pc' = "show_error"
            /\ UNCHANGED normalized
       ELSE /\ normalized' = DisplayWeights(palette)
            /\ pc' = "shown"
    /\ UNCHANGED <<inputVars, sampleVars, selectVars, palette, salVars, distVars>>

NextPresent == Sample \/ Seed \/ Greedy \/ Convert \/ Normalize \/ ShowPalette

SpecPresent == Init /\ [][NextPresent]_vars

-----------------------------------------------------------------------------
(* Properties *)

\* the flat image position a selected entry was taken from
SourcePos(k) == indices[selected_indices[k]]

\* C1: whenever the candidate set handed to the selection stage holds at
\* least 5 candidates, the returned palette has exactly 5 entries, whichever
\* sampler branch produced the candidates.
PaletteCardinality ==
    (pc = "done" /\ Len(pixels) >= 5) => Len(palette) = 5

\* C1 witness: a palette of 5 returned from exactly 5 candidates that the
\* 70th-percentile fallback produced
PaletteCardinalityWitness ==
    pc = "done" /\ Len(pixels) = 5 /\ path = "p70" /\ Len(palette) = 5

\* C3: the candidates are the pixels strictly inside the 20th..80th percentile
\* band when that band holds at least 250 pixels, otherwise the pixels
\* strictly above the 70th percentile, and when that choice holds fewer than
\* 5 pixels a sample of positions of the whole image; a percentile filter
\* never keeps a pixel whose saliency equals a threshold.
SamplerCascade ==
    pc \notin {"start", "error"} =>
        LET n     == Len(image)
            low   == np_percentile(saliency_map, 20)
            high  == np_percentile(saliency_map, 80)
            p70   == np_percentile(saliency_map, 70)
            band  == {i \in 1..n : 200 * saliency_map[i] > low
                                   /\ 200 * saliency_map[i] < high}
            above == {i \in 1..n : 200 * saliency_map[i] > p70}
            kept  == IF Cardinality(band) >= 250 THEN band ELSE above
        IN  /\ path = IF Cardinality(kept) < 5 THEN "random"
                      ELSE IF Cardinality(band) >= 250 THEN "band" ELSE "p70"
            /\ path # "random" =>
                   /\ Range(indices) = kept
                   /\ Len(indices) = Cardinality(kept)
            /\ path = "band" =>
                   \A k \in 1..Len(indices) :
                       200 * saliency_flat[k] \notin {low, high}
            /\ path = "p70" =>
                   \A k \in 1..Len(indices) : 200 * saliency_flat[k] # p70
            /\ path = "random" => Range(indices) \subseteq 1..n
            /\ \A k \in 1..Len(indices) :
                   /\ pixels[k] = rgb_to_lab(image[indices[k]])
                   /\ saliency_flat[k] = saliency_map[indices[k]]

\* C3 witness: a band of 1..249 pixels was dropped for the pixels above the
\* 70th percentile
SamplerCascadeWitness ==
    /\ pc = "seed"
    /\ path = "p70"
    /\ LET low  == np_percentile(saliency_map, 20)
           high == np_percentile(saliency_map, 80)
       IN  Cardinality({i \in 1..Len(image) :
                           200 * saliency_map[i] > low
                           /\ 200 * saliency_map[i] < high}) = 249

\* C8 (state part): pool colours and pool weights stay co-indexed, every
\* selected entry carries the colour and the raw saliency of one and the same
\* image pixel, and the palette lists the selected entries in their order.
ProvenanceInv ==
    /\ Len(saliency_cand) = Len(candidates)
    /\ Len(cand_idx) = Len(candidates)
    /\ \A i \in 1..Len(candidates) :
           /\ candidates[i] = pixels[cand_idx[i]]
           /\ saliency_cand[i] = saliency_flat[cand_idx[i]]
    /\ \A k \in 1..Len(selected) :
           /\ selected[k].p = rgb_to_lab(image[SourcePos(k)])
           /\ selected[k].w = saliency_map[SourcePos(k)]
    /\ pc = "done" =>
           /\ Len(palette) = Len(selected)
           /\ \A k \in 1..Len(palette) :
                  /\ palette[k].Weight = saliency_map[SourcePos(k)]
                  /\ palette[k].RGB = lab_to_rgb(rgb_to_lab(image[SourcePos(k)]))

\* C8 (step part): entries are only ever appended, so their order is the
\* selection order (seed 1, seed 2, greedy picks in round order)
AppendOnly ==
    Len(selected) > 0 =>
        /\ Len(selected') >= Len(selected)
        /\ Len(selected') <= Len(selected) + 1
        /\ \A k \in 1..Len(selected) : selected'[k] = selected[k]

\* C8: every palette entry's Weight is the raw saliency value of the very
\* pixel its colour was taken from, entries appear in selection order, and
\* the pool's colour and weight arrays stay co-indexed after every removal.
WeightProvenance == [](ProvenanceInv) /\ [][AppendOnly]_vars

\* C8 witness: a palette whose greedy picks had different weights, returned
\* after three removals from the pool
WeightProvenanceWitness ==
    /\ pc = "done"
    /\ Len(palette) = 5
    /\ Len(candidates) >= 1
    /\ palette[3].Weight # palette[4].Weight
    /\ palette[4].Weight # palette[5].Weight

\* C10 (step part): once the pool is empty with fewer than 5 entries
\* selected, a round adds nothing and raises nothing
EmptyPoolStep ==
    (pc = "greedy" /\ candidates = <<>> /\ Len(selected) < 5) =>
        /\ selected' = selected
        /\ candidates' = <<>>
        /\ pc' \in {"greedy", "convert"}

\* C10: if the pool empties before 5 entries are selected the selection stops
\* adding entries, raises no error and the palette returned has fewer than 5
\* entries; no palette has more than 5 entries.
EarlyStop ==
    /\ [][EmptyPoolStep]_vars
    /\ [](Len(selected) <= 5 /\ Len(palette) <= 5)
    /\ []((pc = "done" /\ candidates = <<>> /\ Len(selected) < 5)
              => Len(palette) < 5)

\* C10 witness: a palette of fewer than 5 entries returned with an empty pool
EarlyStopWitness ==
    pc = "done" /\ candidates = <<>> /\ Len(palette) = 4 /\ Len(pixels) = 4

\* minimum weighted distance over the ordered pairs of distinct candidates of
\* S, each pair weighted by the weight of its second member
MinPairSet(S) ==
    RealMin({weighted_lab_distance(pixels[i], pixels[j], saliency_flat[j]) :
               <<i, j>> \in {q \in S \X S : q[1] # q[2]}})

\* minimum over the pairs (earlier entry s, later entry c) of the sequence q
\* of weighted_lab_distance(c, s.color, s.weight): the distances the
\* selection itself measures
MinPairSeq(q) ==
    RealMin({weighted_lab_distance(q[j].p, q[i].p, q[i].w) :
               <<i, j>> \in {r \in (1..Len(q)) \X (1..Len(q)) : r[1] < r[2]}})

\* C2 as stated: for a fixed seed pair the 5 selected colours have a minimum
\* pairwise weighted distance at least that of every other 5-subset of the
\* candidates holding the same two seeds (compared on candidate sets of at
\* most MaxSubsetPool entries).
DiversityOptimal ==
    (/\ pc = "done"
     /\ Len(pixels) <= MaxSubsetPool
     /\ Cardinality(Range(selected_indices)) = 5) =>
        LET seeds == {selected_indices[1], selected_indices[2]}
            rest  == (1..Len(pixels)) \ seeds
            ours  == MinPairSet(Range(selected_indices))
        IN  \A T \in SUBSET rest :
                Cardinality(T) = 3 => RealLeq(MinPairSet(seeds \cup T), ours)

\* C2 amended: the 5 selected entries have a minimum pairwise weighted
\* distance (each pair measured from the later entry to the earlier one with
\* the earlier one's weight) at least that of the first four entries followed
\* by any other remaining candidate.
DiversityLastPick ==
    (pc = "done" /\ Len(selected) = 5) =>
        LET ours == MinPairSeq(selected)
        IN  \A i \in 1..Len(candidates) :
                RealLeq(MinPairSeq(Append(SubSeq(selected, 1, 4),
                                          [p |-> candidates[i], w |-> saliency_cand[i]])),
                        ours)

\* C2 witness: five entries selected, and a remaining candidate that would
\* have made a strictly worse fifth entry
DiversityLastPickWitness ==
    /\ pc = "done"
    /\ Len(selected) = 5
    /\ \E i \in 1..Len(candidates) :
           RealLess(MinPairSeq(Append(SubSeq(selected, 1, 4),
                                      [p |-> candidates[i], w |-> saliency_cand[i]])),
                    MinPairSeq(selected))

\* the input is one of the four-quadrant images with saliency 1.0 everywhere
IsQuadScenario == Input(image, img_shape, saliency_map, sal_shape) \in QuadInputs

\* the palette has 5 entries, holds all four quadrant colours, and no pixel of
\* the image is farther from the first entry than the second entry is
QuadPalette ==
    /\ Len(palette) = 5
    /\ Cardinality({palette[k].RGB : k \in 1..Len(palette)}) >= 4
    /\ {selected[k].p : k \in 1..Len(selected)} =
           {rgb_to_lab(image[i]) : i \in 1..Len(image)}
    /\ \A i \in 1..Len(image) :
           RealLeq(LabDistance(rgb_to_lab(image[i]), selected[1].p),
                   LabDistance(selected[2].p, selected[1].p))
    /\ selected[2].p # selected[1].p

\* the palette has 5 entries, holds every colour of the sample, and no
\* sampled pixel is farther from the first entry than the second entry is
QuadPaletteOfSample ==
    /\ Len(palette) = 5
    /\ {selected[k].p : k \in 1..Len(selected)} = Range(pixels)
    /\ Cardinality({palette[k].RGB : k \in 1..Len(palette)})
           = Cardinality(Range(pixels))
    /\ \A i \in 1..Len(pixels) :
           RealLeq(LabDistance(pixels[i], selected[1].p),
                   LabDistance(selected[2].p, selected[1].p))

\* the sample holds a pixel of every quadrant
SampleOfEveryQuadrant ==
    Range(pixels) = {rgb_to_lab(image[i]) : i \in 1..Len(image)}

ShapeMismatchFatal ==
    (img_shape # sal_shape) => (pc # "done" /\ palette = <<>>)

\* C6: for distinct Lab points p, q the calls (p, q, w_p) and (q, p, w_q)
\* return the same value exactly when w_p = w_q, and swapping the points
\* under the same weight never changes the value.
DistanceAsymmetry ==
    pc = "dist_done" =>
        /\ result.swapped = result.pq
        /\ args.p # args.q => ((result.pq = result.qp) <=> (args.w_p = args.w_q))

\* C6 witness: two distinct points measured under two different non-zero
\* weights of the same sign
DistanceAsymmetryWitness ==
    /\ pc = "dist_done"
    /\ args.p # args.q
    /\ args.w_p > args.w_q
    /\ args.w_q > 0
    /\ RealLess(result.qp, result.pq)
    /\ result.swapped = result.pq

\* every pixel of the image has the same colour
UniformImage == \A p \in 1..Len(rgb) : rgb[p] = rgb[1]

\* the field f is 0.5 everywhere
HalfEverywhere(f) == \A p \in 1..Len(f.num) : 2 * f.num[p] = f.den

\* C5 as stated: for a uniform-colour image compute_combined_saliency
\* returns a field that is 0.5 everywhere, and so does each of the two
\* normalised maps it averages.
FlatFieldHalf ==
    /\ (pc \in {"sal_s1", "sal_s2", "sal_done"} /\ UniformImage) => HalfEverywhere(s1)
    /\ (pc \in {"sal_s2", "sal_done"} /\ UniformImage) => HalfEverywhere(s2)
    /\ (pc = "sal_done" /\ UniformImage) => HalfEverywhere(combined)

\* C11: once the sampler has run on an image of at least one pixel and a
\* field of the same shape, the candidate set is non-empty and holds no more
\* entries than the image has pixels, whichever branch produced it.
NonEmptyCandidates ==
    (pc \notin {"start", "error"} /\ Len(image) >= 1 /\ sal_shape = img_shape) =>
        /\ Len(pixels) >= 1
        /\ Len(pixels) <= Len(image)
        /\ Len(saliency_flat) = Len(pixels)
        /\ path \in {"band", "p70", "random"}

\* C11 witness: a percentile filter that kept nothing (flat field) replaced
\* by a random sample of a two-pixel image
NonEmptyCandidatesWitness ==
    /\ pc = "seed"
    /\ path = "random"
    /\ Len(image) = 2
    /\ Len(pixels) = 2
    /\ saliency_map[1] = saliency_map[2]

\* C12: the first selected entry is the candidate of maximum saliency
\* weight, the first one in candidate order among those sharing the maximum.
SeedOne ==
    Len(selected) >= 1 =>
        LET i1 == selected_indices[1]
        IN  /\ selected[1] = [p |-> pixels[i1], w |-> saliency_flat[i1]]
            /\ \A i \in 1..Len(pixels) : saliency_flat[i] <= saliency_flat[i1]
            /\ \A i \in 1..(i1 - 1) : saliency_flat[i] < saliency_flat[i1]

\* C12 witness: seed 1 chosen where a later candidate of another colour has
\* the same maximal weight, and an earlier candidate has a smaller one
SeedOneWitness ==
    /\ pc = "greedy"
    /\ selected_indices[1] > 1
    /\ \E i \in (selected_indices[1] + 1)..Len(pixels) :
           /\ saliency_flat[i] = selected[1].w
           /\ pixels[i] # selected[1].p

\* C13: the second selected entry is a candidate at maximal
\* weighted_lab_distance(c, seed1, seed1_weight) over the whole candidate
\* set; with a non-zero seed weight it is a candidate of maximal unweighted
\* distance, whatever its own weight.
SeedTwo ==
    Len(selected) >= 2 =>
        LET i2   == selected_indices[2]
            far  == weighted_lab_distance(selected[2].p, selected[1].p, selected[1].w)
            far0 == LabDistance(selected[2].p, selected[1].p)
        IN  /\ selected[2] = [p |-> pixels[i2], w |-> saliency_flat[i2]]
            /\ \A i \in 1..Len(pixels) :
                   RealLeq(weighted_lab_distance(pixels[i], selected[1].p,
                                                 selected[1].w), far)
            /\ selected[1].w > 0 =>
                   \A i \in 1..Len(pixels) :
                       RealLeq(LabDistance(pixels[i], selected[1].p), far0)

\* C13 witness: seed 2 is farther from seed 1 than another candidate (not
\* seed 1 itself) that has a larger weight than seed 2
SeedTwoWitness ==
    /\ pc = "greedy"
    /\ \E i \in 1..Len(pixels) :
           /\ saliency_flat[i] > selected[2].w
           /\ i # selected_indices[1]
           /\ RealLess(LabDistance(pixels[i], selected[1].p),
                       LabDistance(selected[2].p, selected[1].p))

\* the minimum over the selected entries s of
\* weighted_lab_distance(c, s.color, s.weight)
MinToSelected(c) ==
    RealMin({weighted_lab_distance(c, selected[k].p, selected[k].w) :
               k \in 1..Len(selected)})

\* C14 (step part): a round on a non-empty pool appends the first candidate
\* of maximal minimum distance and removes exactly that candidate from both
\* pool arrays
GreedyRound ==
    (pc = "greedy" /\ candidates # <<>>) =>
        \E b \in 1..Len(candidates) :
            /\ \A i \in 1..Len(candidates) :
                   RealLeq(MinToSelected(candidates[i]), MinToSelected(candidates[b]))
            /\ \A i \in 1..(b - 1) :
                   RealLess(MinToSelected(candidates[i]), MinToSelected(candidates[b]))
            /\ selected' = Append(selected, [p |-> candidates[b],
                                             w |-> saliency_cand[b]])
            /\ Len(candidates') = Len(candidates) - 1
            /\ \A j \in 1..Len(candidates') :
                   /\ candidates'[j] = candidates[IF j < b THEN j ELSE j + 1]
                   /\ saliency_cand'[j] = saliency_cand[IF j < b THEN j ELSE j + 1]
            /\ Len(saliency_cand') = Len(candidates')

\* C14: in each round after seeding, while the pool is non-empty, the entry
\* added is the remaining candidate maximising the minimum weighted distance
\* to the selected entries, the first such candidate on ties; that candidate
\* and only it leaves the pool; there are 3 rounds.
GreedyRule == [][GreedyRound]_vars /\ [](rnd <= PaletteSize)

\* C14 witness: the third round has run on a pool in which two candidates of
\* different colours tied for the best minimum distance
GreedyRuleWitness ==
    /\ pc = "done"
    /\ Len(selected) = 5
    /\ \E i \in 1..Len(candidates) :
           /\ candidates[i] # selected[5].p
           /\ RealMin({weighted_lab_distance(candidates[i], selected[k].p, selected[k].w) :
                          k \in 1..4})
                = RealMin({weighted_lab_distance(selected[5].p, selected[k].p, selected[k].w) :
                              k \in 1..4})

\* C16 as stated: the selected entries come from pairwise distinct
\* candidates, the two seeds differ whenever there are at least 2
\* candidates, selected entries plus pool entries number as many as the
\* candidates, and the palette never has more entries than there are
\* candidates.
NoDoubleSelection ==
    pc \in {"greedy", "convert", "done"} =>
        /\ Cardinality(Range(selected_indices)) = Len(selected_indices)
        /\ Len(pixels) >= 2 => selected_indices[1] # selected_indices[2]
        /\ Len(selected) + Len(candidates) = Len(pixels)
        /\ Len(palette) <= Len(pixels)

\* the pixels strictly between the 20th and the 80th percentile
BandSet ==
    LET low  == np_percentile(saliency_map, 20)
        high == np_percentile(saliency_map, 80)
    IN  {i \in 1..Len(image) :
            200 * saliency_map[i] > low /\ 200 * saliency_map[i] < high}

\* the pixels strictly above the 70th percentile
AboveSet ==
    LET p70 == np_percentile(saliency_map, 70)
    IN  {i \in 1..Len(image) : 200 * saliency_map[i] > p70}

\* C17 as stated: whenever at least 5 pixels lie strictly inside the band,
\* the candidates are saliency-filtered pixels only and the random path is
\* not taken.
UsableBandKept ==
    (pc \notin {"start", "error"} /\ Cardinality(BandSet) >= 5) =>
        /\ path # "random"
        /\ Range(indices) \in {BandSet, AboveSet}

\* C17 amended: a band of at least 250 pixels is the candidate set; a
\* smaller band is dropped, and then at least 5 pixels strictly above the
\* 70th percentile are the candidate set; in both cases the random path is
\* not taken.
UsableFilterKept ==
    pc \notin {"start", "error"} =>
        LET band  == BandSet
            above == AboveSet
        IN  /\ Cardinality(band) >= 250 =>
                   (path = "band" /\ Range(indices) = band)
            /\ (Cardinality(band) < 250 /\ Cardinality(above) >= 5) =>
                   (path = "p70" /\ Range(indices) = above)

\* C17 witness: the candidates are the 84 pixels above the 70th percentile
\* after a band of 5..249 pixels was dropped
UsableFilterKeptWitness ==
    /\ pc = "seed"
    /\ path = "p70"
    /\ Cardinality(BandSet) >= 5
    /\ Cardinality(BandSet) < 250
    /\ Len(pixels) = 84
    /\ Range(indices) = AboveSet

\* C18: the first palette entry's Weight is at least every other entry's,
\* and every Weight is strictly positive when a percentile filter produced
\* the candidates.
FirstDominates ==
    (pc = "done" /\ Len(palette) >= 1) =>
        /\ \A k \in 1..Len(palette) : palette[1].Weight >= palette[k].Weight
        /\ path \in {"band", "p70"} =>
               \A k \in 1..Len(palette) : palette[k].Weight > 0

\* C18 witness: a palette from the 70th-percentile filter whose first entry
\* outweighs a later one
FirstDominatesWitness ==
    /\ pc = "done"
    /\ path = "p70"
    /\ Len(palette) = 5
    /\ \E k \in 2..5 : palette[1].Weight > palette[k].Weight
    /\ \A k \in 1..5 : palette[k].Weight > 0

\* C19 as stated: for every palette returned for a saliency field with
\* values in [0,1], flat fields included, the presentation layer's
\* normalisation raises no error and yields weights in [0,1] that sum to 1,
\* with every entry's RGB and the order of the entries unchanged.
DisplayNormalization ==
    /\ pc \notin {"norm_error", "show_error"}
    /\ pc \in {"normalized", "shown"} =>
           /\ Len(normalized) = Len(palette)
           /\ \A k \in 1..Len(normalized) :
                  /\ normalized[k].RGB = palette[k].RGB
                  /\ normalized[k].Weight.num >= 0
                  /\ normalized[k].Weight.num <= normalized[k].Weight.den
                  /\ normalized[k].Weight.num = palette[k].Weight
           /\ SumSeq([k \in 1..Len(normalized) |-> normalized[k].Weight.num])
                  = normalized[1].Weight.den

====
